---- MODULE Spec2Model ----
(***************************************************************************)
(* Cooperative task scheduler (src/src/scheduler/scheduler.c).             *)
(*                                                                         *)
(* The model follows the main context through sched_start() and            *)
(* sched_execute_que() one shared-memory access or clock read at a time,   *)
(* lets the millisecond counter tick between any two such steps, and lets  *)
(* the application call the public functions from the main context (when   *)
(* sched_start is not running) and from inside a task handler.  SpecSched  *)
(* adds an interrupt that calls sched_init and sched_stop at any point;    *)
(* SpecFair adds the fairness of the main loop and of the clock, and       *)
(* SpecQuiet is the fair application whose handlers call nothing.          *)
(* SpecPool is the application that allocates its tasks from a pool,       *)
(* SpecData the one that hands data to its tasks, and SpecMath starts from *)
(* started tasks with every start time, interval and clock value.          *)
(* SpecIsrPool follows sched_task_alloc of the main context one access at  *)
(* a time while an interrupt allocates, configures, starts and stops       *)
(* tasks; SpecIsrStop lets an interrupt call sched_task_stop at any point  *)
(* of the main loop.  SpecAccess is the application of the access tests:   *)
(* handlers and an interrupt call every function on every task.            *)
(*                                                                         *)
(* The millisecond counter and every uint32_t time value range over        *)
(* 0 .. MsMod-1: subtraction wraps modulo MsMod as the code's uint32_t     *)
(* subtraction wraps modulo 2^32.                                          *)
(***************************************************************************)
EXTENDS Integers, FiniteSets, Sequences, TLC

\* ---------------------------------------------------------------- bounds
\* Number of values of the modelled millisecond counter (2^32 in the code).
MsMod == 3
\* Largest interval the application passes to config / update.
MaxInterval == 1

\* Length of the data arrays the application passes to sched_task_data.
MaxData == 2
\* Size of the data buffer of each task of the pool, in bytes.
BuffSize == 1

\* ------------------------------------------------------------- constants
NULL == 0

UINT8_MAX == 255
UINT32_MAX == MsMod - 1
SCHED_MS_MAX == UINT32_MAX

\* sched_state_t
SCHED_STATE_STOPPED == "SCHED_STOPPED"
SCHED_STATE_ACTIVE == "SCHED_ACTIVE"
SCHED_STATE_STOPPING == "SCHED_STOPPING"

\* sched_task_state_t
SCHED_TASK_UNINIT == "UNINIT"
SCHED_TASK_STOPPED == "STOPPED"
SCHED_TASK_ACTIVE == "ACTIVE"
SCHED_TASK_EXECUTING == "EXECUTING"
SCHED_TASK_STOPPING == "STOPPING"

TaskStates ==
  {SCHED_TASK_UNINIT, SCHED_TASK_STOPPED, SCHED_TASK_ACTIVE,
   SCHED_TASK_EXECUTING, SCHED_TASK_STOPPING}

\* The application's tasks, its handler functions and the intervals it uses.
Tasks == {1, 2}
TaskPtrs == Tasks \cup {NULL}
Handlers == {1}
Intervals == 0 .. MaxInterval

\* The task pool of the application, when it defines one: its tasks are the
\* slots of the pool's task array, PoolEnd is the address one past the array.
Pools == {1}
PoolPtrs == Pools \cup {NULL}
PoolTasks == {2}
PoolEnd == Cardinality(Tasks) + 1

\* The task the application defines with a data buffer of its own, when it
\* does not use a pool.
BuffTasks == {2}

\* Address of the data buffer of task t.
BUFF(t) == 0 - t

\* The data arrays of the application and the bytes they hold.
DataPtrs == {1, 2}
AppData(b) == [i \in 1 .. MaxData |-> ((b + i) % 2) + 1]
DataSizes == 0 .. MaxData

\* ----------------------------------------------------------------- state
VARIABLES
  now,            \* value of the port's millisecond counter, sched_port_ms()
  scheduler,      \* the static scheduler_t: p_head, p_tail, updated, state
  task,           \* the sched_task_t records, by task
  p_next_task,    \* static cached next task of sched_execute_que
  pc,             \* position of the main context
  now_time_ms,    \* local of sched_execute_que
  next_task_ms,   \* local of sched_execute_que
  p_search_task,  \* local of sched_execute_que
  p_task,         \* argument of the running task_execute_handler
  cache_call,     \* TRUE when task_execute_handler was called on the cached task
  sleep_ms,       \* argument of the pending sched_port_sleep call
  owed,           \* history: tasks due when a handler called sched_stop
  self_stop,      \* history: the running handler stopped its own task
  halted,         \* history: tasks that stopped themselves, not started since
  pool,           \* the sched_task_pool_t: p_tasks and initialized
  buff,           \* the data buffers of the buffered tasks, by task
  alloc           \* the sched_task_alloc call of the main context that an
                  \* interrupt may cut into: its position (pc), its local
                  \* p_task_cur, and for each slot the number of times it
                  \* was handed out since its last release (held)

schedVars == <<scheduler, task>>
loopVars == <<p_next_task, pc, now_time_ms, next_task_ms, p_search_task,
              p_task, cache_call, sleep_ms>>
histVars == <<owed, self_stop, halted>>
vars == <<now, scheduler, task, p_next_task, pc, now_time_ms, next_task_ms,
          p_search_task, p_task, cache_call, sleep_ms, owed, self_stop,
          halted, pool, buff, alloc>>

\* ------------------------------------------------------- time arithmetic
\* uint32_t subtraction.
\* Mutant: a subtraction that stops at 0 instead of wrapping.
U32Sub_saturating(a, b) == IF a >= b THEN a - b ELSE 0

U32Sub(a, b) == (a - b + MsMod) % MsMod

TASK_ACTIVE(tk) ==
  tk.state = SCHED_TASK_ACTIVE \/ tk.state = SCHED_TASK_EXECUTING

\* Mutant: the interval of a repeating task is stored as requested.
task_interval_set_as_given(tk, interval_ms) ==
  IF SCHED_MS_MAX < UINT32_MAX /\ interval_ms > SCHED_MS_MAX
    THEN [tk EXCEPT !.interval_ms = SCHED_MS_MAX]
    ELSE [tk EXCEPT !.interval_ms = interval_ms]

task_interval_set(tk, interval_ms) ==
  IF tk.repeat /\ interval_ms = 0
    THEN [tk EXCEPT !.interval_ms = 1]
    ELSE IF SCHED_MS_MAX < UINT32_MAX /\ interval_ms > SCHED_MS_MAX
           THEN [tk EXCEPT !.interval_ms = SCHED_MS_MAX]
           ELSE [tk EXCEPT !.interval_ms = interval_ms]

task_time_elapsed_ms(tk, now_ms) == U32Sub(now_ms, tk.start_ms)

task_time_expired(tk, now_ms) == U32Sub(now_ms, tk.start_ms) >= tk.interval_ms

task_time_remaining_ms(tk, now_ms) ==
  LET elapsed_ms == U32Sub(now_ms, tk.start_ms)
  IN  IF tk.interval_ms > elapsed_ms THEN tk.interval_ms - elapsed_ms ELSE 0

sched_task_expired(p) ==
  IF p # NULL /\ TASK_ACTIVE(task[p])
    THEN U32Sub(now, task[p].start_ms) >= task[p].interval_ms
    ELSE FALSE

\* Mutant: the elapsed time is computed for every task that is not NULL.
sched_task_elapsed_ms_any_state(p) ==
  IF p # NULL THEN U32Sub(now, task[p].start_ms) ELSE 0

sched_task_elapsed_ms(p) ==
  IF p # NULL /\ TASK_ACTIVE(task[p])
    THEN U32Sub(now, task[p].start_ms)
    ELSE 0

\* Mutant: the remaining time of an overdue task wraps instead of being 0.
sched_task_remaining_ms_wrapping(p) ==
  IF p # NULL /\ TASK_ACTIVE(task[p])
    THEN U32Sub(task[p].interval_ms, U32Sub(now, task[p].start_ms))
    ELSE SCHED_MS_MAX

sched_task_remaining_ms(p) ==
  IF p # NULL /\ TASK_ACTIVE(task[p])
    THEN LET elapsed_ms == U32Sub(now, task[p].start_ms)
         IN  IF elapsed_ms < task[p].interval_ms
               THEN task[p].interval_ms - elapsed_ms
               ELSE 0
    ELSE SCHED_MS_MAX

\* ------------------------------------------------------ public functions
\* Each public function is an operator from the current state to the value
\* it returns (ret) and the scheduler and task records it leaves behind.
Return(r, sch, tks) == [ret |-> r, scheduler |-> sch, task |-> tks]

sched_updated_set(sch) == [sch EXCEPT !.updated = TRUE]

\* Mutant: the task state is not checked before the task is configured.
sched_task_config_any_state(p, handler, interval_ms, repeat) ==
  IF p = NULL \/ handler = NULL
    THEN Return(FALSE, scheduler, task)
  ELSE IF scheduler.state = SCHED_STATE_STOPPED
    THEN Return(FALSE, scheduler, task)
  ELSE
    LET uninit == task[p].state = SCHED_TASK_UNINIT
        linked ==
          IF uninit /\ scheduler.p_head # NULL
            THEN [task EXCEPT ![scheduler.p_tail].p_next = p]
            ELSE task
        sch ==
          IF ~uninit THEN scheduler
          ELSE IF scheduler.p_head = NULL
            THEN [scheduler EXCEPT !.p_head = p, !.p_tail = p]
            ELSE [scheduler EXCEPT !.p_tail = p]
        tk0 == IF uninit THEN [linked[p] EXCEPT !.p_next = NULL] ELSE linked[p]
        tk1 == [tk0 EXCEPT !.p_handler = handler, !.repeat = repeat]
        tk2 == task_interval_set(tk1, interval_ms)
        tk3 == [tk2 EXCEPT !.state = SCHED_TASK_STOPPED]
    IN  Return(TRUE, sch, [linked EXCEPT ![p] = tk3])

sched_task_config(p, handler, interval_ms, repeat) ==
  IF p = NULL \/ handler = NULL
    THEN Return(FALSE, scheduler, task)
  ELSE IF scheduler.state = SCHED_STATE_STOPPED
    THEN Return(FALSE, scheduler, task)
  ELSE IF task[p].state # SCHED_TASK_UNINIT /\ task[p].state # SCHED_TASK_STOPPED
    THEN Return(FALSE, scheduler, task)
  ELSE
    LET uninit == task[p].state = SCHED_TASK_UNINIT
        \* append the task to the que when it is not a node of it yet
        linked ==
          IF uninit /\ scheduler.p_head # NULL
            THEN [task EXCEPT ![scheduler.p_tail].p_next = p]
            ELSE task
        sch ==
          IF ~uninit THEN scheduler
          ELSE IF scheduler.p_head = NULL
            THEN [scheduler EXCEPT !.p_head = p, !.p_tail = p]
            ELSE [scheduler EXCEPT !.p_tail = p]
        tk0 == IF uninit THEN [linked[p] EXCEPT !.p_next = NULL] ELSE linked[p]
        tk1 == [tk0 EXCEPT !.p_handler = handler, !.repeat = repeat]
        tk2 == task_interval_set(tk1, interval_ms)
        tk3 == [tk2 EXCEPT !.state = SCHED_TASK_STOPPED]
    IN  Return(TRUE, sch, [linked EXCEPT ![p] = tk3])

\* Mutant: a one-shot task started from inside its handler becomes ACTIVE
\* at once instead of EXECUTING.
sched_task_start_in_active(p, sch, tks) ==
  IF p = NULL
    THEN Return(FALSE, sch, tks)
  ELSE IF tks[p].state = SCHED_TASK_UNINIT
    THEN Return(FALSE, sch, tks)
  ELSE IF tks[p].state = SCHED_TASK_STOPPED \/ tks[p].state = SCHED_TASK_STOPPING
    THEN Return(TRUE, sched_updated_set(sch),
                [tks EXCEPT ![p].state = SCHED_TASK_ACTIVE,
                            ![p].start_ms = now])
  ELSE Return(TRUE, sch, [tks EXCEPT ![p].start_ms = now])

sched_task_start_in(p, sch, tks) ==
  IF p = NULL
    THEN Return(FALSE, sch, tks)
  ELSE IF tks[p].state = SCHED_TASK_UNINIT
    THEN Return(FALSE, sch, tks)
  ELSE IF tks[p].state = SCHED_TASK_STOPPED
    THEN Return(TRUE, sched_updated_set(sch),
                [tks EXCEPT ![p].state = SCHED_TASK_ACTIVE,
                            ![p].start_ms = now])
  ELSE IF tks[p].state = SCHED_TASK_STOPPING
    THEN Return(TRUE, sch,
                [tks EXCEPT ![p].state = SCHED_TASK_EXECUTING,
                            ![p].start_ms = now])
  ELSE Return(TRUE, sch, [tks EXCEPT ![p].start_ms = now])

\* Mutant: starting a task that is already running is ignored, the start
\* time is not written again.
sched_task_start_no_restart(p) ==
  IF p # NULL /\ TASK_ACTIVE(task[p])
    THEN Return(TRUE, scheduler, task)
    ELSE sched_task_start_in(p, scheduler, task)

sched_task_start(p) == sched_task_start_in(p, scheduler, task)

sched_task_update(p, interval_ms) ==
  IF p = NULL
    THEN Return(FALSE, scheduler, task)
    ELSE sched_task_start_in(
           p, scheduler,
           [task EXCEPT ![p] = task_interval_set(task[p], interval_ms)])

\* Mutant: stopping an ACTIVE task leaves its allocated flag set.
sched_task_stop_in_keep_allocated(p, sch, tks) ==
  IF p = NULL
    THEN Return(FALSE, sch, tks)
  ELSE IF tks[p].state = SCHED_TASK_UNINIT
    THEN Return(FALSE, sch, tks)
  ELSE IF tks[p].state = SCHED_TASK_ACTIVE
    THEN Return(TRUE, sch, [tks EXCEPT ![p].state = SCHED_TASK_STOPPED])
  ELSE IF tks[p].state = SCHED_TASK_EXECUTING
    THEN Return(TRUE, sch, [tks EXCEPT ![p].state = SCHED_TASK_STOPPING])
  ELSE Return(TRUE, sch, tks)

sched_task_stop_in(p, sch, tks) ==
  IF p = NULL
    THEN Return(FALSE, sch, tks)
  ELSE IF tks[p].state = SCHED_TASK_UNINIT
    THEN Return(FALSE, sch, tks)
  ELSE IF tks[p].state = SCHED_TASK_ACTIVE
    THEN Return(TRUE, sch,
                [tks EXCEPT ![p].state = SCHED_TASK_STOPPED,
                            ![p].allocated = FALSE])
  ELSE IF tks[p].state = SCHED_TASK_EXECUTING
    THEN Return(TRUE, sch, [tks EXCEPT ![p].state = SCHED_TASK_STOPPING])
  ELSE Return(TRUE, sch, tks)

\* Mutant: a task is stopped at once when its handler is running.
sched_task_stop_at_once(p) ==
  IF p # NULL /\ task[p].state = SCHED_TASK_EXECUTING
    THEN Return(TRUE, scheduler,
                [task EXCEPT ![p].state = SCHED_TASK_STOPPED,
                             ![p].allocated = FALSE])
    ELSE sched_task_stop_in(p, scheduler, task)

sched_task_stop(p) == sched_task_stop_in(p, scheduler, task)

\* sched_task_data returns a value and leaves the task records and the data
\* buffers behind, sched_task_alloc the task records and the pool.
DataReturn(r, tks, bf) == [ret |-> r, task |-> tks, buff |-> bf]

PoolReturn(r, tks, pl) == [ret |-> r, task |-> tks, pool |-> pl]

TASK_BUFFERED(tk) == tk.buff_size > 0

\* Mutant: the copy leaves out the first byte.
Memcpy_skip_first(dest, p_data, size) ==
  [i \in DOMAIN dest |-> IF 1 < i /\ i <= size THEN AppData(p_data)[i] ELSE dest[i]]

\* memcpy of the first size bytes of the array at p_data into a buffer.
Memcpy(dest, p_data, size) ==
  [i \in DOMAIN dest |-> IF i <= size THEN AppData(p_data)[i] ELSE dest[i]]

\* Mutant: sched_task_data stores into a task in any state.
sched_task_data_any_state(p, p_data, data_size) ==
  IF p = NULL
    THEN DataReturn(0, task, buff)
  ELSE IF TASK_BUFFERED(task[p])
    THEN LET size == IF data_size > task[p].buff_size
                       THEN task[p].buff_size
                       ELSE data_size
         IN  IF p_data = NULL
               THEN DataReturn(0, [task EXCEPT ![p].data_size = 0], buff)
               ELSE DataReturn(size, [task EXCEPT ![p].data_size = size],
                               [buff EXCEPT ![p] = Memcpy(buff[p], p_data, size)])
  ELSE DataReturn(data_size,
                  [task EXCEPT ![p].data_size = data_size,
                               ![p].p_data = p_data],
                  buff)

sched_task_data(p, p_data, data_size) ==
  IF p = NULL
    THEN DataReturn(0, task, buff)
  ELSE IF task[p].state # SCHED_TASK_STOPPED
    THEN DataReturn(0, task, buff)
  ELSE IF TASK_BUFFERED(task[p])
    THEN LET size == IF data_size > task[p].buff_size
                       THEN task[p].buff_size
                       ELSE data_size
         IN  IF p_data = NULL
               THEN DataReturn(0, [task EXCEPT ![p].data_size = 0], buff)
               ELSE DataReturn(size, [task EXCEPT ![p].data_size = size],
                               [buff EXCEPT ![p] = Memcpy(buff[p], p_data, size)])
  ELSE DataReturn(data_size,
                  [task EXCEPT ![p].data_size = data_size,
                               ![p].p_data = p_data],
                  buff)

sched_task_pool_init(tks, pl) ==
  [t \in Tasks |->
     IF t \in pl.p_tasks
       THEN [tks[t] EXCEPT !.p_data = BUFF(t), !.buff_size = BuffSize,
                           !.allocated = FALSE, !.state = SCHED_TASK_UNINIT]
       ELSE tks[t]]

\* The search of sched_task_alloc runs from the first slot to the address one
\* past the array, which it reads as well: end_allocated is the value of the
\* allocated bit read there.
sched_task_alloc(p_pool, end_allocated) ==
  IF p_pool = NULL
    THEN PoolReturn(NULL, task, pool)
  ELSE IF scheduler.state # SCHED_STATE_ACTIVE
    THEN PoolReturn(NULL, task, pool)
  ELSE
    LET tks == IF pool.initialized THEN task
               ELSE sched_task_pool_init(task, pool)
        pl == [pool EXCEPT !.initialized = TRUE]
        free == {t \in pool.p_tasks : ~tks[t].allocated}
        first == CHOOSE t \in free : \A u \in free : t <= u
    IN  IF free # {}
          THEN PoolReturn(first,
                          [tks EXCEPT ![first].allocated = TRUE,
                                      ![first].data_size = 0],
                          pl)
        ELSE IF end_allocated
          THEN PoolReturn(NULL, tks, pl)
          ELSE PoolReturn(PoolEnd, tks, pl)

\* sched_pool_allocated walks the slots and the address one past the array
\* as sched_task_alloc does, and counts in a uint8_t.
sched_pool_allocated(p_pool, end_allocated) ==
  IF p_pool = NULL \/ ~pool.initialized
    THEN 0
    ELSE LET alloc_count ==
               Cardinality({t \in pool.p_tasks : ~task[t].allocated})
                 + (IF ~end_allocated THEN 1 ELSE 0)
         IN  alloc_count % (UINT8_MAX + 1)

sched_pool_free(p_pool, end_allocated) ==
  IF p_pool = NULL
    THEN 0
    ELSE (Cardinality(pool.p_tasks) - sched_pool_allocated(p_pool, end_allocated)
            + UINT8_MAX + 1) % (UINT8_MAX + 1)

\* The addresses sched_task_alloc reads the allocated flag of: p_task_cur
\* from the first slot up to the slot it returns, and up to p_task_last, the
\* address one past the array, when it finds no free slot.
sched_task_alloc_reads(p_pool) ==
  IF p_pool = NULL \/ scheduler.state # SCHED_STATE_ACTIVE
    THEN {}
    ELSE LET tks == IF pool.initialized THEN task
                    ELSE sched_task_pool_init(task, pool)
             free == {t \in pool.p_tasks : ~tks[t].allocated}
         IN  IF free # {}
               THEN {t \in pool.p_tasks : \A u \in free : t <= u}
               ELSE pool.p_tasks \cup {PoolEnd}

\* The addresses sched_pool_allocated reads the allocated flag of: every
\* slot and p_task_last, the address one past the array.
sched_pool_allocated_reads(p_pool) ==
  IF p_pool = NULL \/ ~pool.initialized
    THEN {}
    ELSE pool.p_tasks \cup {PoolEnd}

sched_init ==
  IF scheduler.state = SCHED_STATE_STOPPED
    THEN [scheduler EXCEPT !.p_head = NULL, !.p_tail = NULL,
                           !.updated = FALSE, !.state = SCHED_STATE_ACTIVE]
    ELSE scheduler

\* Mutant: sched_stop does not test for a stopped scheduler.
sched_stop_unguarded == [scheduler EXCEPT !.state = SCHED_STATE_STOPPING]

sched_stop ==
  IF scheduler.state # SCHED_STATE_STOPPED
    THEN [scheduler EXCEPT !.state = SCHED_STATE_STOPPING]
    ELSE scheduler

\* sched_clear_que: every task reachable from p_head becomes UNINIT.
RECURSIVE QueFrom(_, _)
QueFrom(p, tks) ==
  IF p = NULL THEN {} ELSE {p} \cup QueFrom(tks[p].p_next, tks)

Que == QueFrom(scheduler.p_head, task)

sched_clear_que_tasks ==
  [t \in Tasks |->
     IF t \in Que THEN [task[t] EXCEPT !.state = SCHED_TASK_UNINIT] ELSE task[t]]

\* ------------------------------------------- the port lock and the writes
\* What each function does to the port lock and to the shared fields, in the
\* order of its statements: "lock" is sched_port_lock, "free" is
\* sched_port_free, "handler" is the call of a task handler, and a field name
\* is a write to that field of a task or of the scheduler.
SharedFields == {"state", "allocated", "updated", "p_head", "p_tail", "p_next"}

sched_updated_get_clear_ops == <<"lock", "updated", "free">>

\* Mutant: sched_updated_set returns with the lock held.
sched_updated_set_ops_no_free == <<"lock", "updated">>

sched_updated_set_ops == <<"lock", "updated", "free">>

sched_clear_que_ops ==
  <<"lock">> \o [i \in 1 .. Cardinality(Que) |-> "state"]
             \o <<"p_head", "p_tail", "free">>

sched_init_ops ==
  IF scheduler.state = SCHED_STATE_STOPPED
    THEN <<"p_head", "p_tail", "updated">>
    ELSE <<>>

sched_task_config_ops(p, handler, interval_ms, repeat) ==
  IF p = NULL \/ handler = NULL
    THEN <<>>
  ELSE IF scheduler.state = SCHED_STATE_STOPPED
    THEN <<>>
  ELSE IF task[p].state = SCHED_TASK_UNINIT
    THEN <<"p_next", "lock">>
           \o (IF scheduler.p_head = NULL THEN <<"p_head">> ELSE <<"p_next">>)
           \o <<"p_tail", "free", "state">>
  ELSE IF task[p].state # SCHED_TASK_STOPPED
    THEN <<>>
  ELSE <<"state">>

sched_task_start_ops(p) ==
  IF p = NULL
    THEN <<>>
  ELSE IF task[p].state = SCHED_TASK_UNINIT
    THEN <<>>
  ELSE IF task[p].state = SCHED_TASK_STOPPED
    THEN <<"state">> \o sched_updated_set_ops
  ELSE IF task[p].state = SCHED_TASK_STOPPING
    THEN <<"state">>
  ELSE <<>>

sched_task_update_ops(p, interval_ms) == sched_task_start_ops(p)

sched_task_stop_ops(p) ==
  IF p = NULL
    THEN <<>>
  ELSE IF task[p].state = SCHED_TASK_UNINIT
    THEN <<>>
  ELSE IF task[p].state = SCHED_TASK_ACTIVE
    THEN <<"state", "allocated">>
  ELSE IF task[p].state = SCHED_TASK_EXECUTING
    THEN <<"state">>
  ELSE <<>>

sched_task_pool_init_ops ==
  [i \in 1 .. 2 * Cardinality(pool.p_tasks) |->
     IF i % 2 = 1 THEN "allocated" ELSE "state"]

\* raced: another context took the first free slot between the test outside
\* the lock and the test inside it, and the search went on.
sched_task_alloc_ops(p_pool, end_allocated, raced) ==
  IF p_pool = NULL
    THEN <<>>
  ELSE IF scheduler.state # SCHED_STATE_ACTIVE
    THEN <<>>
  ELSE
    LET init == IF pool.initialized THEN <<>> ELSE sched_task_pool_init_ops
        free == {t \in pool.p_tasks : ~pool.initialized \/ ~task[t].allocated}
        left == Cardinality(free) + (IF end_allocated THEN 0 ELSE 1)
                  - (IF raced THEN 1 ELSE 0)
    IN  init \o (IF raced /\ (free # {} \/ ~end_allocated)
                   THEN <<"lock", "free">> ELSE <<>>)
             \o (IF left > 0 THEN <<"lock", "allocated", "free">> ELSE <<>>)

task_execute_handler_ops(tk) ==
  <<"state", "handler", "state">>
    \o (IF tk.state = SCHED_TASK_EXECUTING THEN <<>> ELSE <<"allocated">>)

\* The number of locks taken and not freed after the first n operations.
RECURSIVE LockDepth(_, _)
LockDepth(ops, n) ==
  IF n = 0 THEN 0
  ELSE LockDepth(ops, n - 1)
         + (IF ops[n] = "lock" THEN 1 ELSE IF ops[n] = "free" THEN 0 - 1 ELSE 0)

\* The operations of the function the main context is about to run in
\* sched_start, by its position.
LoopOps ==
  IF pc = "updated" THEN sched_updated_get_clear_ops
  ELSE IF pc = "handler" THEN task_execute_handler_ops(task[p_task])
  ELSE IF pc = "clear" THEN sched_clear_que_ops
  ELSE <<>>

\* ------------------------------------------------------------- histories
\* A task that is ACTIVE and whose interval has elapsed.
Due(t) ==
  task[t].state = SCHED_TASK_ACTIVE /\ task_time_expired(task[t], now)

\* --------------------------------------------------------- initial state
TaskInit ==
  [start_ms |-> 0, interval_ms |-> 0, p_next |-> NULL, p_handler |-> NULL,
   p_data |-> NULL, buff_size |-> 0, data_size |-> 0,
   repeat |-> FALSE, allocated |-> FALSE, state |-> SCHED_TASK_UNINIT]

\* SCHED_TASK_BUFF_DEF: a task with a data buffer of its own.
BuffTaskInit(t) ==
  [TaskInit EXCEPT !.p_data = BUFF(t), !.buff_size = BuffSize]

\* The zeroed static data buffers.
BuffInit == [t \in BuffTasks \cup PoolTasks |-> [i \in 1 .. BuffSize |-> 0]]

\* No pool: the application defines its tasks one by one.
PoolNone == [initialized |-> FALSE, p_tasks |-> {}]

\* SCHED_TASK_POOL_DEF: the pool structure.
PoolInit == [initialized |-> FALSE, p_tasks |-> PoolTasks]

\* No sched_task_alloc call is in progress and no slot is handed out.
AllocIdle ==
  [pc |-> "idle", p_task_cur |-> NULL, held |-> [t \in PoolTasks |-> 0]]

InitWith(tks, pl) ==
  /\ now = 0
  /\ scheduler = [p_head |-> NULL, p_tail |-> NULL, updated |-> FALSE,
                  state |-> SCHED_STATE_STOPPED]
  /\ task = tks
  /\ p_next_task = NULL
  /\ pc = "main"
  /\ now_time_ms = 0
  /\ next_task_ms = UINT32_MAX
  /\ p_search_task = NULL
  /\ p_task = NULL
  /\ cache_call = FALSE
  /\ sleep_ms = 0
  /\ owed = {}
  /\ self_stop = FALSE
  /\ halted = {}
  /\ pool = pl
  /\ buff = BuffInit
  /\ alloc = AllocIdle

Init == InitWith([t \in Tasks |-> TaskInit], PoolNone)

\* The application that takes its second task from a pool.
InitPool == InitWith([t \in Tasks |-> TaskInit], PoolInit)

\* The application whose second task has a data buffer of its own.
InitData ==
  InitWith([t \in Tasks |-> IF t \in BuffTasks THEN BuffTaskInit(t)
                                              ELSE TaskInit],
           PoolNone)

\* ------------------------------------------------------------- the clock
\* The port's counter advances by one millisecond and wraps.  The elapsed
\* time of a started task stays below the counter range: the scheduler is
\* specified for intervals and service delays well inside the range.
Tick ==
  /\ \A t \in Tasks :
       TASK_ACTIVE(task[t]) => task_time_elapsed_ms(task[t], now) < UINT32_MAX
  /\ now' = (now + 1) % MsMod
  /\ UNCHANGED <<schedVars, loopVars, histVars>>
  /\ UNCHANGED <<pool, buff, alloc>>

\* ------------------------------------------- calls of the public functions
\* ctx is the calling context: the main context outside sched_start, the
\* handler that is running, or an interrupt.
CanCall(ctx) ==
  \/ ctx = "main" /\ pc = "main"
  \/ ctx = "handler" /\ pc = "handler"
  \/ ctx = "isr"

OwnTask(ctx, p) == ctx = "handler" /\ p = p_task

\* The application holds a pointer to a task it defined itself and to a task
\* of the pool once sched_task_alloc has handed it out.
Usable(p) == p \notin pool.p_tasks \/ pool.initialized

Apply(r) ==
  /\ scheduler' = r.scheduler
  /\ task' = r.task

CallConfig(ctx) ==
  /\ CanCall(ctx)
  /\ \E p \in Tasks, h \in Handlers, i \in Intervals,
        rep \in BOOLEAN :
       LET r == sched_task_config(p, h, i, rep)
       IN  /\ Usable(p)
           /\ Apply(r)
           /\ owed' = IF r.ret THEN owed \ {p} ELSE owed
  /\ UNCHANGED <<now, loopVars, self_stop, halted>>
  /\ UNCHANGED <<pool, buff, alloc>>

CallStart(ctx) ==
  /\ CanCall(ctx)
  /\ \E p \in Tasks :
       LET r == sched_task_start(p)
       IN  /\ Usable(p)
           /\ Apply(r)
           /\ owed' = IF r.ret THEN owed \ {p} ELSE owed
           /\ self_stop' = IF r.ret /\ OwnTask(ctx, p) THEN FALSE ELSE self_stop
           /\ halted' = IF r.ret THEN halted \ {p} ELSE halted
  /\ UNCHANGED <<now, loopVars>>
  /\ UNCHANGED <<pool, buff, alloc>>

CallUpdate(ctx) ==
  /\ CanCall(ctx)
  /\ \E p \in Tasks, i \in Intervals :
       LET r == sched_task_update(p, i)
       IN  /\ Usable(p)
           /\ Apply(r)
           /\ owed' = IF r.ret THEN owed \ {p} ELSE owed
           /\ self_stop' = IF r.ret /\ OwnTask(ctx, p) THEN FALSE ELSE self_stop
           /\ halted' = IF r.ret THEN halted \ {p} ELSE halted
  /\ UNCHANGED <<now, loopVars>>
  /\ UNCHANGED <<pool, buff, alloc>>

CallStop(ctx) ==
  /\ CanCall(ctx)
  /\ \E p \in Tasks :
       LET r == sched_task_stop(p)
       IN  /\ Usable(p)
           /\ Apply(r)
           /\ owed' = IF r.ret THEN owed \ {p} ELSE owed
           /\ self_stop' = IF r.ret /\ OwnTask(ctx, p) THEN TRUE ELSE self_stop
  /\ UNCHANGED <<now, loopVars, halted>>
  /\ UNCHANGED <<pool, buff, alloc>>

CallData(ctx) ==
  /\ CanCall(ctx)
  /\ \E p \in Tasks, b \in DataPtrs \cup {NULL}, n \in DataSizes :
       LET r == sched_task_data(p, b, n)
       IN  /\ Usable(p)
           /\ task' = r.task
           /\ buff' = r.buff
  /\ UNCHANGED <<now, scheduler, loopVars, histVars, pool, alloc>>

CallAlloc(ctx) ==
  /\ CanCall(ctx)
  /\ \E end_allocated \in BOOLEAN :
       LET r == sched_task_alloc(CHOOSE pl \in Pools : TRUE, end_allocated)
       IN  /\ task' = r.task
           /\ pool' = r.pool
  /\ UNCHANGED <<now, scheduler, loopVars, histVars, buff, alloc>>

CallSchedInit(ctx) ==
  /\ CanCall(ctx)
  /\ scheduler' = sched_init
  /\ UNCHANGED <<now, task, loopVars, histVars>>
  /\ UNCHANGED <<pool, buff, alloc>>

CallSchedStop(ctx) ==
  /\ CanCall(ctx)
  /\ scheduler' = sched_stop
  /\ owed' = IF ctx = "handler"
               THEN owed \cup {t \in Tasks \ {p_task} : Due(t)}
               ELSE owed
  /\ UNCHANGED <<now, task, loopVars, self_stop, halted>>
  /\ UNCHANGED <<pool, buff, alloc>>

\* ------------------------------------------------------------ sched_start
\* The main context enters sched_start.
SchedStart ==
  /\ pc = "main"
  /\ pc' = "loop"
  /\ UNCHANGED <<now, schedVars, p_next_task, now_time_ms, next_task_ms,
                 p_search_task, p_task, cache_call, sleep_ms, histVars>>
  /\ UNCHANGED <<pool, buff, alloc>>

\* while (scheduler.state == SCHED_STATE_ACTIVE)
LoopTest ==
  /\ pc = "loop"
  /\ pc' = IF scheduler.state = SCHED_STATE_ACTIVE THEN "que" ELSE "fin"
  /\ UNCHANGED <<now, schedVars, p_next_task, now_time_ms, next_task_ms,
                 p_search_task, p_task, cache_call, sleep_ms, histVars>>
  /\ UNCHANGED <<pool, buff, alloc>>

\* sched_execute_que: uint32_t now_time_ms = sched_port_ms();
QueTime ==
  /\ pc = "que"
  /\ now_time_ms' = now
  /\ pc' = "updated"
  /\ UNCHANGED <<now, schedVars, p_next_task, next_task_ms, p_search_task,
                 p_task, cache_call, sleep_ms, histVars>>
  /\ UNCHANGED <<pool, buff, alloc>>

\* sched_execute_que: if (!sched_updated_get_clear())
QueUpdated ==
  /\ pc = "updated"
  /\ scheduler' = [scheduler EXCEPT !.updated = FALSE]
  /\ pc' = IF scheduler.updated THEN "search" ELSE "cache"
  /\ UNCHANGED <<now, task, p_next_task, now_time_ms, next_task_ms,
                 p_search_task, p_task, cache_call, sleep_ms, histVars>>
  /\ UNCHANGED <<pool, buff, alloc>>

\* sched_execute_que: the cached next task is serviced, or its remaining
\* time is returned to sched_start, which sleeps for it.
QueCache ==
  /\ pc = "cache"
  /\ IF p_next_task # NULL /\ task[p_next_task].state = SCHED_TASK_ACTIVE
       THEN LET cache_task_ms ==
                  task_time_remaining_ms(task[p_next_task], now_time_ms)
            IN  IF cache_task_ms = 0
                  THEN /\ p_task' = p_next_task
                       /\ cache_call' = TRUE
                       /\ pc' = "exec"
                       /\ UNCHANGED <<sleep_ms, now_time_ms>>
                  ELSE /\ sleep_ms' = cache_task_ms
                       /\ pc' = "sleep"
                       /\ now_time_ms' = 0
                       /\ UNCHANGED <<p_task, cache_call>>
       ELSE /\ pc' = "search"
            /\ UNCHANGED <<p_task, cache_call, sleep_ms, now_time_ms>>
  /\ UNCHANGED <<now, schedVars, p_next_task, next_task_ms, p_search_task,
                 histVars>>
  /\ UNCHANGED <<pool, buff, alloc>>

\* sched_execute_que: p_next_task = NULL and the start of the que search.
QueSearch ==
  /\ pc = "search"
  /\ p_next_task' = NULL
  /\ next_task_ms' = UINT32_MAX
  /\ p_search_task' = scheduler.p_head
  /\ pc' = "scan"
  /\ UNCHANGED <<now, schedVars, now_time_ms, p_task, cache_call, sleep_ms,
                 histVars>>
  /\ UNCHANGED <<pool, buff, alloc>>

\* sched_execute_que: one pass of while (p_search_task != NULL), and the
\* end of the search.
QueScan ==
  /\ pc = "scan"
  /\ IF p_search_task = NULL
       THEN /\ pc' = "que_ret"
            /\ UNCHANGED <<p_next_task, next_task_ms, p_search_task, p_task,
                           cache_call>>
       ELSE IF task[p_search_task].state = SCHED_TASK_ACTIVE
         THEN LET search_task_ms ==
                    task_time_remaining_ms(task[p_search_task], now_time_ms)
              IN  IF search_task_ms = 0
                    THEN /\ p_task' = p_search_task
                         /\ cache_call' = FALSE
                         /\ pc' = "exec"
                         /\ UNCHANGED <<p_next_task, next_task_ms,
                                        p_search_task>>
                    ELSE /\ IF search_task_ms < next_task_ms
                              THEN /\ p_next_task' = p_search_task
                                   /\ next_task_ms' = search_task_ms
                              ELSE UNCHANGED <<p_next_task, next_task_ms>>
                         /\ p_search_task' = task[p_search_task].p_next
                         /\ pc' = "scan"
                         /\ UNCHANGED <<p_task, cache_call>>
         ELSE /\ p_search_task' = task[p_search_task].p_next
              /\ pc' = "scan"
              /\ UNCHANGED <<p_next_task, next_task_ms, p_task, cache_call>>
  /\ UNCHANGED <<now, schedVars, now_time_ms, sleep_ms, histVars>>
  /\ UNCHANGED <<pool, buff, alloc>>

\* Mutant: a one-shot task is armed again when it is fired, as a repeating
\* task is.
task_execute_handler_enter_rearm(tk) ==
  [tk EXCEPT !.state = SCHED_TASK_EXECUTING, !.start_ms = now]

\* task_execute_handler up to the call of the handler.
task_execute_handler_enter(tk) ==
  IF tk.repeat
    THEN [tk EXCEPT !.state = SCHED_TASK_EXECUTING, !.start_ms = now]
    ELSE [tk EXCEPT !.state = SCHED_TASK_STOPPING]

\* Mutant: the loop marks every task it fires EXECUTING, repeating or not.
HandlerCall_executing ==
  /\ pc = "exec"
  /\ task' = [task EXCEPT ![p_task] =
                IF task[p_task].repeat
                  THEN task_execute_handler_enter(task[p_task])
                  ELSE [task[p_task] EXCEPT !.state = SCHED_TASK_EXECUTING]]
  /\ owed' = owed \ {p_task}
  /\ self_stop' = FALSE
  /\ pc' = "handler"
  /\ UNCHANGED <<now, scheduler, p_next_task, now_time_ms, next_task_ms,
                 p_search_task, p_task, cache_call, sleep_ms, halted>>
  /\ UNCHANGED <<pool, buff, alloc>>

HandlerCall ==
  /\ pc = "exec"
  /\ task' = [task EXCEPT ![p_task] = task_execute_handler_enter(task[p_task])]
  /\ owed' = owed \ {p_task}
  /\ self_stop' = FALSE
  /\ pc' = "handler"
  /\ UNCHANGED <<now, scheduler, p_next_task, now_time_ms, next_task_ms,
                 p_search_task, p_task, cache_call, sleep_ms, halted>>
  /\ UNCHANGED <<pool, buff, alloc>>

\* Mutant: the handler's return re-arms a task by its repeat flag, not by
\* its state.
task_execute_handler_exit_by_repeat(tk) ==
  IF tk.repeat
    THEN [tk EXCEPT !.state = SCHED_TASK_ACTIVE]
    ELSE [tk EXCEPT !.state = SCHED_TASK_STOPPED, !.allocated = FALSE]

\* task_execute_handler after the handler has returned.
task_execute_handler_exit(tk) ==
  IF tk.state = SCHED_TASK_EXECUTING
    THEN [tk EXCEPT !.state = SCHED_TASK_ACTIVE]
    ELSE [tk EXCEPT !.state = SCHED_TASK_STOPPED, !.allocated = FALSE]

\* Mutant: the start time of a repeating task is taken when its handler
\* returns.
HandlerReturn_restart ==
  /\ pc = "handler"
  /\ task' = [task EXCEPT ![p_task] =
                IF task[p_task].repeat
                  THEN [task_execute_handler_exit(task[p_task])
                          EXCEPT !.start_ms = now]
                  ELSE task_execute_handler_exit(task[p_task])]
  /\ self_stop' = FALSE
  /\ halted' = IF self_stop THEN halted \cup {p_task} ELSE halted
  /\ p_task' = NULL
  /\ cache_call' = FALSE
  /\ pc' = IF cache_call THEN "search" ELSE "scan"
  /\ UNCHANGED <<now, scheduler, p_next_task, now_time_ms, next_task_ms,
                 p_search_task, sleep_ms, owed>>
  /\ UNCHANGED <<pool, buff, alloc>>

HandlerReturn ==
  /\ pc = "handler"
  /\ task' = [task EXCEPT ![p_task] = task_execute_handler_exit(task[p_task])]
  /\ self_stop' = FALSE
  /\ halted' = IF self_stop THEN halted \cup {p_task} ELSE halted
  /\ p_task' = NULL
  /\ cache_call' = FALSE
  /\ pc' = IF cache_call THEN "search" ELSE "scan"
  /\ UNCHANGED <<now, scheduler, p_next_task, now_time_ms, next_task_ms,
                 p_search_task, sleep_ms, owed>>
  /\ UNCHANGED <<pool, buff, alloc>>

\* sched_execute_que: return sched_task_remaining_ms(p_next_task); then
\* sched_start: if (next_task_ms > 0) sched_port_sleep(next_task_ms);
QueReturn ==
  /\ pc = "que_ret"
  /\ sleep_ms' = sched_task_remaining_ms(p_next_task)
  /\ pc' = IF sched_task_remaining_ms(p_next_task) > 0 THEN "sleep" ELSE "loop"
  /\ now_time_ms' = 0
  /\ next_task_ms' = UINT32_MAX
  /\ owed' = {}
  /\ UNCHANGED <<now, schedVars, p_next_task, p_search_task, p_task,
                 cache_call, self_stop, halted>>
  /\ UNCHANGED <<pool, buff, alloc>>

\* sched_port_sleep returns, at the requested time or on any earlier wake up.
SleepReturn ==
  /\ pc = "sleep"
  /\ sleep_ms' = 0
  /\ pc' = "loop"
  /\ UNCHANGED <<now, schedVars, p_next_task, now_time_ms, next_task_ms,
                 p_search_task, p_task, cache_call, histVars>>
  /\ UNCHANGED <<pool, buff, alloc>>

\* sched_stop_finalize: if (scheduler.state == SCHED_STATE_STOPPING)
FinalizeTest ==
  /\ pc = "fin"
  /\ pc' = IF scheduler.state = SCHED_STATE_STOPPING THEN "clear" ELSE "main"
  /\ UNCHANGED <<now, schedVars, p_next_task, now_time_ms, next_task_ms,
                 p_search_task, p_task, cache_call, sleep_ms, histVars>>
  /\ UNCHANGED <<pool, buff, alloc>>

\* sched_stop_finalize: sched_clear_que();
ClearQue ==
  /\ pc = "clear"
  /\ task' = sched_clear_que_tasks
  /\ scheduler' = [scheduler EXCEPT !.p_head = NULL, !.p_tail = NULL]
  /\ halted' = {}
  /\ pc' = "deinit"
  /\ UNCHANGED <<now, p_next_task, now_time_ms, next_task_ms, p_search_task,
                 p_task, cache_call, sleep_ms, owed, self_stop>>
  /\ UNCHANGED <<pool, buff, alloc>>

\* sched_stop_finalize: sched_port_deinit(); scheduler.state = STOPPED;
\* and sched_start returns.
FinalizeStopped ==
  /\ pc = "deinit"
  /\ scheduler' = [scheduler EXCEPT !.state = SCHED_STATE_STOPPED]
  /\ pc' = "main"
  /\ UNCHANGED <<now, task, p_next_task, now_time_ms, next_task_ms,
                 p_search_task, p_task, cache_call, sleep_ms, histVars>>
  /\ UNCHANGED <<pool, buff, alloc>>

\* --------------------------------------------------------- specifications
MainCall ==
  \/ CallSchedInit("main")
  \/ CallSchedStop("main")
  \/ CallConfig("main")
  \/ CallStart("main")
  \/ CallUpdate("main")
  \/ CallStop("main")

InHandler ==
  \/ CallSchedStop("handler")
  \/ CallConfig("handler")
  \/ CallStart("handler")
  \/ CallUpdate("handler")
  \/ CallStop("handler")

\* An interrupt that initializes or stops the scheduler.
IsrSched ==
  \/ CallSchedInit("isr")
  \/ CallSchedStop("isr")

\* The steps of the main context inside sched_start.
Run ==
  \/ LoopTest
  \/ QueTime
  \/ QueUpdated
  \/ QueCache
  \/ QueSearch
  \/ QueScan
  \/ HandlerCall
  \/ HandlerReturn
  \/ QueReturn
  \/ SleepReturn
  \/ FinalizeTest
  \/ ClearQue
  \/ FinalizeStopped

Loop == SchedStart \/ Run

Next == Tick \/ MainCall \/ InHandler \/ Loop

Spec == Init /\ [][Next]_vars

\* The application with a task pool: it also allocates tasks, from the main
\* context and from handlers.
PoolCall ==
  \/ CallAlloc("main")
  \/ CallAlloc("handler")

NextPool == MainCall \/ InHandler \/ Loop \/ PoolCall

SpecPool == InitPool /\ [][NextPool]_vars

\* The application that sets the data of its tasks, from the main context
\* and from handlers.
DataCall ==
  \/ CallData("main")
  \/ CallData("handler")

\* It configures and starts its tasks before sched_start; its handlers
\* start and stop tasks and stop the scheduler.
DataMain ==
  \/ CallSchedInit("main")
  \/ CallConfig("main")
  \/ CallStart("main")

DataHandler ==
  \/ CallSchedStop("handler")
  \/ CallStart("handler")
  \/ CallStop("handler")

NextData == DataMain \/ DataHandler \/ Loop \/ DataCall

SpecData == InitData /\ [][NextData]_vars

\* The time arithmetic on its own: both tasks are configured and started, with
\* any interval, any start time and any clock value, and sched_start runs
\* them with handlers that call nothing.
StartedTask(p_next, s, i, r) ==
  [TaskInit EXCEPT !.start_ms = s, !.interval_ms = i, !.p_next = p_next,
                   !.p_handler = CHOOSE h \in Handlers : TRUE,
                   !.repeat = r, !.state = SCHED_TASK_ACTIVE]

InitMath ==
  /\ now \in 0 .. UINT32_MAX
  /\ scheduler = [p_head |-> 1, p_tail |-> 2, updated |-> TRUE,
                  state |-> SCHED_STATE_ACTIVE]
  /\ \E s1, s2, i1, i2 \in 0 .. UINT32_MAX, r1, r2 \in BOOLEAN :
       /\ r1 => i1 >= 1
       /\ r2 => i2 >= 1
       /\ task = [t \in Tasks |-> IF t = 1 THEN StartedTask(2, s1, i1, r1)
                                           ELSE StartedTask(NULL, s2, i2, r2)]
  /\ p_next_task = NULL
  /\ pc = "main"
  /\ now_time_ms = 0
  /\ next_task_ms = UINT32_MAX
  /\ p_search_task = NULL
  /\ p_task = NULL
  /\ cache_call = FALSE
  /\ sleep_ms = 0
  /\ owed = {}
  /\ self_stop = FALSE
  /\ halted = {}
  /\ pool = PoolNone
  /\ buff = BuffInit
  /\ alloc = AllocIdle

NextMath ==
  \/ Tick
  \/ SchedStart
  \/ LoopTest
  \/ QueTime
  \/ QueUpdated
  \/ QueCache
  \/ QueSearch
  \/ QueScan
  \/ HandlerCall
  \/ HandlerReturn
  \/ QueReturn
  \/ SleepReturn

SpecMath == InitMath /\ [][NextMath]_vars

\* ------------------------------------ sched_task_alloc under interruption
\* The main context runs sched_task_alloc one shared-memory access at a
\* time; an interrupt runs to completion between any two of them.  The
\* section between sched_port_lock and sched_port_free is one step.

\* sched_task_alloc returned slot: one more hand-out of a slot of the pool.
Handed(held, slot) ==
  [t \in PoolTasks |-> IF t = slot /\ held[t] < 2 THEN held[t] + 1 ELSE held[t]]

\* The slots whose allocated flag sched_task_stop has cleared are released.
Released(held, tks) ==
  [t \in PoolTasks |-> IF tks[t].allocated THEN held[t] ELSE 0]

\* if (p_pool->initialized == false), read by the main context
AllocEnter ==
  /\ pc = "main"
  /\ alloc.pc = "idle"
  /\ scheduler.state = SCHED_STATE_ACTIVE
  /\ alloc' = IF pool.initialized
                THEN [alloc EXCEPT !.pc = "test",
                                   !.p_task_cur = PoolEnd - Cardinality(PoolTasks)]
                ELSE [alloc EXCEPT !.pc = "init"]
  /\ UNCHANGED <<now, schedVars, loopVars, histVars, pool, buff>>

\* sched_task_pool_init(p_pool), called by the main context
AllocPoolInit ==
  /\ alloc.pc = "init"
  /\ task' = sched_task_pool_init(task, pool)
  /\ pool' = [pool EXCEPT !.initialized = TRUE]
  /\ alloc' = [alloc EXCEPT !.pc = "test",
                            !.p_task_cur = PoolEnd - Cardinality(PoolTasks)]
  /\ UNCHANGED <<now, scheduler, loopVars, histVars, buff>>

\* p_task_cur++; } while (p_task_cur <= p_task_last); return NULL;
AllocAdvance ==
  IF alloc.p_task_cur + 1 <= PoolEnd
    THEN [alloc EXCEPT !.p_task_cur = @ + 1, !.pc = "test"]
    ELSE [alloc EXCEPT !.p_task_cur = NULL, !.pc = "idle"]

\* if (!p_task_cur->allocated), the test outside the lock
AllocTest ==
  /\ alloc.pc = "test"
  /\ \E end_allocated \in BOOLEAN :
       LET allocated == IF alloc.p_task_cur = PoolEnd THEN end_allocated
                        ELSE task[alloc.p_task_cur].allocated
       IN  alloc' = IF allocated THEN AllocAdvance
                    ELSE [alloc EXCEPT !.pc = "lock"]
  /\ UNCHANGED <<now, schedVars, loopVars, histVars, pool, buff>>

\* sched_port_lock(); the second test; the slot is marked and returned, or
\* the search goes on.
AllocLock ==
  /\ alloc.pc = "lock"
  /\ \E end_allocated \in BOOLEAN :
       LET cur == alloc.p_task_cur
           allocated == IF cur = PoolEnd THEN end_allocated
                        ELSE task[cur].allocated
       IN  IF allocated
             THEN alloc' = AllocAdvance /\ task' = task
             ELSE /\ alloc' = [alloc EXCEPT !.pc = "idle", !.p_task_cur = NULL,
                                            !.held = Handed(@, cur)]
                  /\ task' = IF cur = PoolEnd THEN task
                             ELSE [task EXCEPT ![cur].allocated = TRUE,
                                               ![cur].data_size = 0]
  /\ UNCHANGED <<now, scheduler, loopVars, histVars, pool, buff>>

\* sched_task_alloc called from an interrupt.
IsrAlloc ==
  \E end_allocated \in BOOLEAN :
    LET r == sched_task_alloc(CHOOSE pl \in Pools : TRUE, end_allocated)
    IN  /\ task' = r.task
        /\ pool' = r.pool
        /\ alloc' = [alloc EXCEPT !.held = Handed(@, r.ret)]
        /\ UNCHANGED <<now, scheduler, loopVars, histVars, buff>>

\* sched_task_stop called from an interrupt.
IsrStop ==
  \E p \in Tasks :
    LET r == sched_task_stop(p)
    IN  /\ Usable(p)
        /\ Apply(r)
        /\ alloc' = [alloc EXCEPT !.held = Released(@, r.task)]
        /\ UNCHANGED <<now, loopVars, histVars, pool, buff>>

\* The interrupt allocates a task, configures it, starts it and stops it.
IsrPool ==
  \/ IsrAlloc
  \/ CallConfig("isr")
  \/ CallStart("isr")
  \/ IsrStop

MainAlloc ==
  \/ AllocEnter
  \/ AllocPoolInit
  \/ AllocTest
  \/ AllocLock

NextIsrPool == CallSchedInit("main") \/ MainAlloc \/ IsrPool

SpecIsrPool == InitPool /\ [][NextIsrPool]_vars

\* An interrupt that stops tasks, at any point of the main loop; the handlers
\* themselves call nothing.
NextIsrStop == Tick \/ MainCall \/ Loop \/ CallStop("isr")

SpecIsrStop == Init /\ [][NextIsrStop]_vars

\* Calls from the main context, from handlers and from the interrupt.
\* The application of the access tests: it takes its second task from the
\* pool and configures and starts its tasks before sched_start, where a
\* millisecond passes, and it calls sched_init before it configures its
\* first task; its
\* handlers call every function on every task, and an interrupt calls them
\* while a handler runs.
\* sched_task_data with the first data array of the application and one
\* byte of it.
AccessData(ctx) ==
  /\ CanCall(ctx)
  /\ \E p \in Tasks :
       LET b == CHOOSE d \in DataPtrs : \A e \in DataPtrs : d <= e
           r == sched_task_data(p, b, 1)
       IN  /\ Usable(p)
           /\ task' = r.task
           /\ buff' = r.buff
  /\ UNCHANGED <<now, scheduler, loopVars, histVars, pool, alloc>>

AccessCall(ctx) ==
  \/ CallConfig(ctx)
  \/ CallStart(ctx)
  \/ CallUpdate(ctx)
  \/ CallStop(ctx)
  \/ AccessData(ctx)
  \/ CallAlloc(ctx)
  \/ CallSchedStop(ctx)

AccessMain ==
  \/ pc = "main" /\ now = 0 /\ Tick
  \/ (\A t \in Tasks : task[t].p_handler = NULL) /\ CallSchedInit("main")
  \/ CallAlloc("main")
  \/ CallConfig("main")
  \/ CallStart("main")

IsrInHandler == pc = "handler" /\ AccessCall("isr")

NextAccess ==
  \/ AccessMain
  \/ AccessCall("handler")
  \/ IsrInHandler
  \/ Loop

SpecAccess == InitPool /\ [][NextAccess]_vars

NextSched == Tick \/ MainCall \/ InHandler \/ Loop \/ IsrSched

SpecSched == Init /\ [][NextSched]_vars

\* Once inside sched_start the main context keeps running: the loop takes
\* its next step, every handler returns and every sleep returns.  The clock
\* keeps counting.
SpecFair == Spec /\ WF_vars(Run) /\ WF_vars(Tick)

\* The application whose handlers call no function of the scheduler, under
\* the same scheduling: tasks are configured and started before sched_start.
NextQuiet == Tick \/ MainCall \/ Loop

SpecQuiet == Init /\ [][NextQuiet]_vars /\ WF_vars(Run) /\ WF_vars(Tick)

TypeOK ==
  /\ now \in 0 .. UINT32_MAX
  /\ scheduler.state \in
       {SCHED_STATE_STOPPED, SCHED_STATE_ACTIVE, SCHED_STATE_STOPPING}
  /\ \A t \in Tasks : task[t].state \in TaskStates

\* ----------------------------------------------------------------- claims

\* C1: the main loop invokes a task's handler only when the clock minus the
\* task's start_ms, modulo the counter range, is at least its interval_ms:
\* never before interval_ms milliseconds have elapsed since the task was
\* last started or re-armed.
C1_HandlerOnlyWhenExpired ==
  pc = "exec" => task_time_expired(task[p_task], now)

\* C2: whenever sched_start passes ms > 0 to the port sleep, no task of the
\* registry is ACTIVE with a remaining time smaller than ms at that moment.
C2_SleepNotPastNextExpiration ==
  [][(pc # "sleep" /\ pc' = "sleep")
       => \A t \in Que' :
            task'[t].state = SCHED_TASK_ACTIVE
              => sched_task_remaining_ms(t)' >= sleep_ms']_vars

\* C3: a task's state changes only along the edges of the task state
\* machine, each taken by the operation that owns it: config (UNINIT or
\* STOPPED to STOPPED), start (STOPPED to ACTIVE, STOPPING to EXECUTING),
\* the loop firing the task (ACTIVE to EXECUTING when repeating, ACTIVE to
\* STOPPING when one-shot), stop (ACTIVE to STOPPED, EXECUTING to STOPPING),
\* the handler's return (EXECUTING to ACTIVE, STOPPING to STOPPED) and the
\* scheduler teardown (any state to UNINIT).
C3_Fired(t) == pc = "exec" /\ pc' = "handler" /\ p_task = t

C3_Returned(t) == pc = "handler" /\ pc' # "handler" /\ p_task = t

C3_Called == pc' = pc /\ pc \in {"main", "handler"}

C3_Edge(t) ==
  LET a == task[t].state
      b == task'[t].state
  IN  \/ a = b
      \/ /\ a = SCHED_TASK_UNINIT /\ b = SCHED_TASK_STOPPED
         /\ C3_Called /\ t \notin Que /\ t \in Que'
      \/ /\ a = SCHED_TASK_STOPPED /\ b = SCHED_TASK_ACTIVE
         /\ C3_Called /\ task'[t].start_ms = now
      \/ /\ a = SCHED_TASK_ACTIVE /\ b = SCHED_TASK_EXECUTING
         /\ C3_Fired(t) /\ task[t].repeat
      \/ /\ a = SCHED_TASK_ACTIVE /\ b = SCHED_TASK_STOPPING
         /\ C3_Fired(t) /\ ~task[t].repeat
      \/ /\ a = SCHED_TASK_ACTIVE /\ b = SCHED_TASK_STOPPED
         /\ C3_Called
      \/ /\ a = SCHED_TASK_EXECUTING /\ b = SCHED_TASK_STOPPING
         /\ C3_Called
      \/ /\ a = SCHED_TASK_STOPPING /\ b = SCHED_TASK_EXECUTING
         /\ C3_Called /\ task'[t].start_ms = now
      \/ /\ a = SCHED_TASK_EXECUTING /\ b = SCHED_TASK_ACTIVE
         /\ C3_Returned(t)
      \/ /\ a = SCHED_TASK_STOPPING /\ b = SCHED_TASK_STOPPED
         /\ C3_Returned(t)
      \/ /\ b = SCHED_TASK_UNINIT
         /\ pc = "clear" /\ pc' = "deinit"

C3_TaskStateEdges == [][\A t \in Tasks : C3_Edge(t)]_vars

\* C3 witness: a one-shot task restarted from inside its handler (STOPPING to
\* EXECUTING) next to a task that was stopped while ACTIVE.
C3_Witness ==
  /\ pc = "handler"
  /\ task[p_task].state = SCHED_TASK_EXECUTING
  /\ ~task[p_task].repeat
  /\ \E t \in Tasks \ {p_task} :
       task[t].state = SCHED_TASK_STOPPED /\ task[t].start_ms # 0

\* C4: when sched_stop is called from a handler while another ACTIVE task is
\* due, that task's handler is invoked before the scan ends (owed is empty
\* when the scan returns), and when sched_start returns after the stop every
\* task is UNINIT, p_head and p_tail are NULL and the scheduler is STOPPED.
C4_Teardown ==
  /\ \A t \in Tasks : task[t].state = SCHED_TASK_UNINIT
  /\ scheduler.p_head = NULL
  /\ scheduler.p_tail = NULL
  /\ scheduler.state = SCHED_STATE_STOPPED

C4_StopProtocol ==
  [][/\ (pc = "scan" /\ pc' = "que_ret") => owed = {}
     /\ (pc = "deinit" /\ pc' = "main") => C4_Teardown']_vars

\* C5: the scheduler state changes only from STOPPED to ACTIVE and from
\* ACTIVE to STOPPING, each by a call (the position of the main context does
\* not move), and from STOPPING to STOPPED by the teardown at the end of
\* sched_start; sched_init changes nothing unless the scheduler is STOPPED
\* and sched_stop changes nothing when it is STOPPED.
C5_Edge ==
  LET a == scheduler.state
      b == scheduler'.state
  IN  \/ a = b
      \/ a = SCHED_STATE_STOPPED /\ b = SCHED_STATE_ACTIVE /\ pc' = pc
      \/ a = SCHED_STATE_ACTIVE /\ b = SCHED_STATE_STOPPING /\ pc' = pc
      \/ /\ a = SCHED_STATE_STOPPING /\ b = SCHED_STATE_STOPPED
         /\ pc = "deinit" /\ pc' = "main"

C6_StopLeadsToReturn ==
  (pc = "handler" /\ scheduler.state = SCHED_STATE_STOPPING)
    ~> (pc = "main" /\ scheduler.state = SCHED_STATE_STOPPED)

\* The contexts that can call a public function: the main context outside
\* sched_start and a running handler.
Callable == pc \in {"main", "handler"}

C7_Outcome(p, handler, interval_ms, repeat, initialized) ==
  LET r == sched_task_config(p, handler, interval_ms, repeat)
      accepted ==
        /\ p # NULL
        /\ handler # NULL
        /\ initialized
        /\ task[p].state \in {SCHED_TASK_UNINIT, SCHED_TASK_STOPPED}
  IN  /\ r.ret = accepted
      /\ r.ret =>
           /\ r.task[p].state = SCHED_TASK_STOPPED
           /\ r.task[p].p_handler = handler
           /\ r.task[p].repeat = repeat
           /\ p \in QueFrom(r.scheduler.p_head, r.task)
      /\ ~r.ret =>
           /\ r.task = task
           /\ r.scheduler = scheduler

C7_Holds(initialized) ==
  Callable =>
    \A p \in TaskPtrs, handler \in Handlers \cup {NULL},
       interval_ms \in Intervals, repeat \in BOOLEAN :
      C7_Outcome(p, handler, interval_ms, repeat, initialized)

C8_StartResult ==
  Callable =>
    \A p \in TaskPtrs :
      LET r == sched_task_start(p)
      IN  IF p = NULL \/ task[p].state = SCHED_TASK_UNINIT
            THEN ~r.ret /\ r.task = task /\ r.scheduler = scheduler
            ELSE /\ r.ret
                 /\ r.task[p].start_ms = now
                 /\ r.task[p].state =
                      CASE task[p].state = SCHED_TASK_STOPPED -> SCHED_TASK_ACTIVE
                        [] task[p].state = SCHED_TASK_STOPPING -> SCHED_TASK_EXECUTING
                        [] OTHER -> task[p].state

\* C8 witness: a handler can restart a running task whose start time lies in
\* the past, and start a stopped one.
C8_Witness ==
  /\ pc = "handler"
  /\ task[p_task].state = SCHED_TASK_EXECUTING
  /\ task[p_task].start_ms # now
  /\ \E t \in Tasks : task[t].state = SCHED_TASK_STOPPED

\* C9: sched_task_stop returns false for a NULL or UNINIT task and true
\* otherwise; it moves ACTIVE to STOPPED with allocated cleared and EXECUTING
\* to STOPPING; on a STOPPED task it changes nothing and returns true, and on
\* an UNINIT task it changes nothing and returns false, however often it is
\* called.  The allocated flag ranges over both values: sched_task_alloc sets
\* it on a task it hands out.
C9_StopResult ==
  Callable =>
    \A p \in TaskPtrs, allocated \in BOOLEAN :
      LET tks == IF p = NULL THEN task
                 ELSE [task EXCEPT ![p].allocated = allocated]
          r == sched_task_stop_in(p, scheduler, tks)
          again == sched_task_stop_in(p, r.scheduler, r.task)
      IN  IF p = NULL \/ task[p].state = SCHED_TASK_UNINIT
            THEN /\ ~r.ret /\ r.task = tks /\ r.scheduler = scheduler
                 /\ again = r
            ELSE /\ r.ret
                 /\ r.scheduler = scheduler
                 /\ task[p].state = SCHED_TASK_ACTIVE =>
                      /\ r.task[p].state = SCHED_TASK_STOPPED
                      /\ ~r.task[p].allocated
                 /\ task[p].state = SCHED_TASK_EXECUTING =>
                      r.task[p].state = SCHED_TASK_STOPPING
                 /\ task[p].state = SCHED_TASK_STOPPED => r.task = tks
                 /\ r.task[p].state = SCHED_TASK_STOPPED => again = r

\* C9 witness: a handler can stop the other task, which is ACTIVE, and its
\* own, which is EXECUTING.
C9_Witness ==
  /\ pc = "handler"
  /\ task[p_task].state = SCHED_TASK_EXECUTING
  /\ \E t \in Tasks \ {p_task} : task[t].state = SCHED_TASK_ACTIVE

\* C10: a repeating task whose handler stopped its own task and did not start
\* it again is STOPPED when the handler returns, and the loop does not invoke
\* the handler of a task that stopped itself until the task is started again.
C10_SelfStopHalts ==
  [][/\ (pc = "handler" /\ pc' # "handler" /\ self_stop /\ task[p_task].repeat)
          => task'[p_task].state = SCHED_TASK_STOPPED
     /\ pc' = "exec" => p_task' \notin halted']_vars

\* C10 witness: a repeating task stopped itself, its interval has elapsed
\* again and the loop is scanning the que.
C10_Witness ==
  /\ pc = "scan"
  /\ \E t \in halted :
       /\ task[t].repeat
       /\ task[t].state = SCHED_TASK_STOPPED
       /\ p_search_task = t
       /\ task_time_expired(task[t], now_time_ms)

C12_OneShotSelfRestart ==
  [][/\ (pc = "handler" /\ pc' # "handler" /\ ~task[p_task].repeat
           /\ task[p_task].state = SCHED_TASK_EXECUTING)
          => task'[p_task].state = SCHED_TASK_ACTIVE
     /\ \A t \in Tasks :
          (C3_Fired(t) /\ ~task[t].repeat) => task_time_expired(task[t], now)]_vars

\* C13: a public task operation that reports failure leaves every task
\* record and the scheduler as they were: sched_task_update, sched_task_start
\* and sched_task_stop returning false, and sched_task_config returning
\* false, change nothing.
C13_Unchanged(r) == ~r.ret => r.task = task /\ r.scheduler = scheduler

C13_MisuseNoOp ==
  Callable =>
    \A p \in TaskPtrs :
      /\ C13_Unchanged(sched_task_start(p))
      /\ C13_Unchanged(sched_task_stop(p))
      /\ \A interval_ms \in Intervals :
           /\ C13_Unchanged(sched_task_update(p, interval_ms))
           /\ \A handler \in Handlers \cup {NULL}, repeat \in BOOLEAN :
                C13_Unchanged(sched_task_config(p, handler, interval_ms, repeat))

\* C14: sched_task_data stores only into a STOPPED task. For a NULL pointer
\* and for a task that is UNINIT, ACTIVE, EXECUTING or STOPPING it returns 0
\* and changes no data pointer, data size or buffer; the data pointer, the
\* data size and the buffer of a task that is not STOPPED never change, so what
\* the handler is handed stays as stored while the task is active or executing.
C14_DataFields(tks, bf, t) ==
  <<tks[t].p_data, tks[t].data_size, IF t \in DOMAIN bf THEN bf[t] ELSE <<>> >>

C14_DataOnlyWhenStopped ==
  [][/\ Callable =>
          \A p \in TaskPtrs, b \in DataPtrs \cup {NULL}, n \in DataSizes :
            (p = NULL \/ task[p].state # SCHED_TASK_STOPPED) =>
              LET r == sched_task_data(p, b, n)
              IN  r.ret = 0 /\ r.task = task /\ r.buff = buff
     /\ \A t \in Tasks :
          task[t].state # SCHED_TASK_STOPPED =>
            C14_DataFields(task', buff', t) = C14_DataFields(task, buff, t)]_vars

\* A handler is running on data stored earlier in its task's buffer.
C14_Witness ==
  /\ pc = "handler"
  /\ task[p_task].state = SCHED_TASK_EXECUTING
  /\ TASK_BUFFERED(task[p_task])
  /\ task[p_task].data_size > 0
  /\ \E b \in DataPtrs : buff[p_task][1] = AppData(b)[1]

\* C15: sched_task_data on a STOPPED task with a buffer copies
\* min(data_size, buff_size) bytes of the array into the task's own buffer,
\* stores that count as data_size and returns it; with a NULL array it stores
\* and returns 0.  On a STOPPED task without a buffer it stores the pointer
\* and the size as given and returns the size.  The data size of a task with a
\* buffer never exceeds the buffer size, and what was stored stays in place
\* until the next sched_task_data on the STOPPED task, so the handler is
\* handed the stored bytes and the stored size.
C15_Min(a, b) == IF a < b THEN a ELSE b

C15_Stored(p, b, n) ==
  LET r == sched_task_data(p, b, n)
      size == C15_Min(n, task[p].buff_size)
  IN  IF TASK_BUFFERED(task[p])
        THEN /\ r.task[p].p_data = BUFF(p)
             /\ IF b = NULL
                  THEN r.ret = 0 /\ r.task[p].data_size = 0
                  ELSE /\ r.ret = size
                       /\ r.task[p].data_size = size
                       /\ \A i \in 1 .. size : r.buff[p][i] = AppData(b)[i]
        ELSE /\ r.ret = n
             /\ r.task[p].p_data = b
             /\ r.task[p].data_size = n

C15_DataRoundTrip ==
  [][/\ Callable =>
          \A p \in Tasks, b \in DataPtrs \cup {NULL}, n \in DataSizes :
            task[p].state = SCHED_TASK_STOPPED => C15_Stored(p, b, n)
     /\ \A t \in Tasks :
          /\ TASK_BUFFERED(task[t]) => task[t].data_size <= task[t].buff_size
          /\ C14_DataFields(task', buff', t) # C14_DataFields(task, buff, t)
               => /\ Callable /\ pc' = pc
                  /\ \E b \in DataPtrs \cup {NULL}, n \in DataSizes :
                       LET r == sched_task_data(t, b, n)
                       IN  task' = r.task /\ buff' = r.buff]_vars

\* The handler of a task with a buffer is entered with a stored array in the
\* buffer and the stored size.
C15_Witness ==
  /\ pc = "exec"
  /\ TASK_BUFFERED(task[p_task])
  /\ task[p_task].p_data = BUFF(p_task)
  /\ task[p_task].data_size = task[p_task].buff_size
  /\ \E b \in DataPtrs :
       \A i \in 1 .. task[p_task].data_size : buff[p_task][i] = AppData(b)[i]

\* C16: after a successful sched_task_config or sched_task_update the stored
\* interval is 1 when the task repeats and 0 was requested, and otherwise the
\* smaller of the requested interval and SCHED_MS_MAX; every configured
\* repeating task has an interval of at least 1 ms.
C16_Interval(repeat, interval_ms) ==
  IF repeat /\ interval_ms = 0 THEN 1
  ELSE IF interval_ms < SCHED_MS_MAX THEN interval_ms
  ELSE SCHED_MS_MAX

C16_IntervalNormalised ==
  /\ Callable =>
       \A p \in Tasks, interval_ms \in 0 .. UINT32_MAX :
         /\ LET r == sched_task_update(p, interval_ms)
            IN  r.ret => r.task[p].interval_ms
                           = C16_Interval(task[p].repeat, interval_ms)
         /\ \A handler \in Handlers, repeat \in BOOLEAN :
              LET r == sched_task_config(p, handler, interval_ms, repeat)
              IN  r.ret => r.task[p].interval_ms
                             = C16_Interval(repeat, interval_ms)
  /\ \A t \in Tasks :
       (task[t].state # SCHED_TASK_UNINIT /\ task[t].repeat)
         => task[t].interval_ms >= 1

\* A repeating task and a one-shot task with interval 0 are both started.
C16_Witness ==
  \E t, u \in Tasks :
    /\ task[t].state = SCHED_TASK_ACTIVE /\ task[t].repeat
    /\ task[t].interval_ms = 1
    /\ task[u].state = SCHED_TASK_ACTIVE /\ ~task[u].repeat
    /\ task[u].interval_ms = 0

\* C17: a repeating task whose interval was given as 0 does not starve the
\* other tasks: with handlers that never touch the scheduler, every scan of
\* the queue comes to its end, and every ACTIVE task whose interval has
\* expired gets its handler called.
C17_NoStarvation ==
  /\ (pc = "search") ~> (pc = "que_ret")
  /\ \A t \in Tasks :
       (/\ pc \notin {"main", "handler"}
        /\ scheduler.state = SCHED_STATE_ACTIVE
        /\ task[t].state = SCHED_TASK_ACTIVE
        /\ task_time_expired(task[t], now))
         ~> (pc = "handler" /\ p_task = t)

\* C18: the time comparisons are right across the wrap of the millisecond
\* counter.  With d = (now - start_ms) mod 2^32 the elapsed time is d, the
\* task is expired exactly when d >= interval_ms, and the remaining time is
\* interval_ms - d when d < interval_ms and 0 otherwise; so k ticks after its
\* start, wherever the counter wraps in between, a task has elapsed time k,
\* is unexpired for k < interval_ms and expired from k = interval_ms on.
C18_Times(tk, now_ms, d) ==
  /\ task_time_elapsed_ms(tk, now_ms) = d
  /\ task_time_expired(tk, now_ms) <=> d >= tk.interval_ms
  /\ task_time_remaining_ms(tk, now_ms)
       = IF d < tk.interval_ms THEN tk.interval_ms - d ELSE 0

C18_Wraparound ==
  \A t \in Tasks :
    TASK_ACTIVE(task[t]) =>
      /\ C18_Times(task[t], now, (now - task[t].start_ms) % (UINT32_MAX + 1))
      /\ \A k \in 0 .. UINT32_MAX :
           C18_Times(task[t], (task[t].start_ms + k) % (UINT32_MAX + 1), k)

\* A task started at the last counter value with an interval of 2 or more:
\* the counter has wrapped to 0 and the task is not expired, one tick after
\* its start.
C18_Witness ==
  \E t \in Tasks :
    /\ task[t].state = SCHED_TASK_ACTIVE
    /\ task[t].start_ms = UINT32_MAX
    /\ task[t].interval_ms >= 2
    /\ now = 0
    /\ ~task_time_expired(task[t], now)

\* C19: for a NULL pointer and for every task that is neither ACTIVE nor
\* EXECUTING, whatever its start_ms and interval_ms, sched_task_remaining_ms
\* returns SCHED_MS_MAX, sched_task_elapsed_ms returns 0 and
\* sched_task_expired returns false.
C19_InactiveTimes ==
  \A p \in TaskPtrs :
    (p = NULL \/ task[p].state \notin {SCHED_TASK_ACTIVE, SCHED_TASK_EXECUTING})
      => /\ sched_task_remaining_ms(p) = SCHED_MS_MAX
         /\ sched_task_elapsed_ms(p) = 0
         /\ ~sched_task_expired(p)

\* A task that is stopped or stopping, started in the past with an interval
\* that has run out since.
C19_Witness ==
  \E p \in Tasks :
    /\ task[p].state \in {SCHED_TASK_STOPPED, SCHED_TASK_STOPPING}
    /\ task[p].start_ms # now
    /\ task[p].interval_ms > 0
    /\ U32Sub(now, task[p].start_ms) >= task[p].interval_ms

\* C20: with the scheduler ACTIVE, sched_task_alloc hands out a slot of the
\* pool that is not allocated and marks it allocated, so that N allocations
\* from a fresh pool of N return N distinct slots and an allocation succeeds
\* again once an allocated task has stopped; it returns NULL when every slot
\* is allocated, and it returns NULL whenever the scheduler is not ACTIVE.
C20_Free ==
  {t \in pool.p_tasks : ~pool.initialized \/ ~task[t].allocated}

C20_PoolAlloc ==
  Callable =>
    \A p_pool \in PoolPtrs, end_allocated \in BOOLEAN :
      LET r == sched_task_alloc(p_pool, end_allocated)
      IN  IF p_pool = NULL \/ scheduler.state # SCHED_STATE_ACTIVE
            THEN r.ret = NULL
          ELSE IF C20_Free = {}
            THEN r.ret = NULL
          ELSE r.ret \in C20_Free /\ r.task[r.ret].allocated

\* C21: whatever way an interrupt's sched_task_alloc calls cut into the
\* sched_task_alloc call of the main context, no slot of the pool is handed
\* out a second time before it is released, and a slot that was handed out
\* and not released has allocated = TRUE.
C21_ExclusiveAlloc ==
  \A s \in pool.p_tasks :
    /\ alloc.held[s] <= 1
    /\ alloc.held[s] = 1 => task[s].allocated

\* C22: for every task of an initialized pool, allocated tells whether the
\* task is in use: a task that is ACTIVE, EXECUTING or STOPPING is
\* allocated; a task is not allocated once sched_task_stop has succeeded and
\* left it STOPPED, once its one-shot handler has returned, and once the
\* scheduler has been torn down.
C22_AllocatedIffInUse ==
  [][\A t \in pool.p_tasks :
       pool.initialized =>
         /\ task[t].state \in {SCHED_TASK_ACTIVE, SCHED_TASK_EXECUTING,
                               SCHED_TASK_STOPPING}
              => task[t].allocated
         /\ Callable =>
              LET r == sched_task_stop(t)
              IN  (r.ret /\ r.task[t].state = SCHED_TASK_STOPPED)
                    => ~r.task[t].allocated
         /\ (C3_Returned(t) /\ task'[t].state = SCHED_TASK_STOPPED)
              => ~task'[t].allocated
         /\ (pc = "clear" /\ pc' = "deinit") => ~task'[t].allocated]_vars

\* C23: for an initialized pool sched_pool_allocated is the number of slots
\* whose allocated flag is set and sched_pool_free the number of slots whose
\* flag is clear, so the two add up to the number of slots.
C23_PoolCounts ==
  pool.initialized =>
    \A p_pool \in Pools, end_allocated \in BOOLEAN :
      /\ sched_pool_allocated(p_pool, end_allocated)
           = Cardinality({t \in pool.p_tasks : task[t].allocated})
      /\ sched_pool_free(p_pool, end_allocated)
           = Cardinality({t \in pool.p_tasks : ~task[t].allocated})
      /\ sched_pool_allocated(p_pool, end_allocated)
           + sched_pool_free(p_pool, end_allocated) = Cardinality(pool.p_tasks)

\* C24: the calls of sched_port_lock and sched_port_free are balanced and
\* never nested: in every public function and in every step of the main
\* loop the lock is never taken while it is held, never freed while it is
\* not held, not held when the function returns and not held when a handler
\* is called.
C24_Balanced(ops) ==
  /\ \A n \in 0 .. Len(ops) : LockDepth(ops, n) \in {0, 1}
  /\ LockDepth(ops, Len(ops)) = 0
  /\ \A n \in 1 .. Len(ops) : ops[n] = "handler" => LockDepth(ops, n) = 0

C24_TaskOps(Holds(_)) ==
  /\ \A p \in TaskPtrs :
       /\ Holds(sched_task_start_ops(p))
       /\ Holds(sched_task_stop_ops(p))
       /\ \A interval_ms \in Intervals :
            /\ Holds(sched_task_update_ops(p, interval_ms))
            /\ \A handler \in Handlers \cup {NULL}, repeat \in BOOLEAN :
                 Holds(sched_task_config_ops(p, handler, interval_ms, repeat))
  /\ \A p_pool \in PoolPtrs, end_allocated \in BOOLEAN, raced \in BOOLEAN :
       Holds(sched_task_alloc_ops(p_pool, end_allocated, raced))

C24_LockBalanced ==
  /\ Callable => C24_Balanced(sched_init_ops) /\ C24_TaskOps(C24_Balanced)
  /\ C24_Balanced(LoopOps)

\* In a handler, with the scheduler ACTIVE and the running task in the que:
\* a free slot of the pool can be allocated under the lock and, not
\* configured yet, be appended to the que under the lock.
C24_Witness ==
  /\ pc = "handler"
  /\ scheduler.state = SCHED_STATE_ACTIVE
  /\ scheduler.p_head # NULL
  /\ pool.initialized
  /\ \E t \in pool.p_tasks :
       task[t].state = SCHED_TASK_UNINIT /\ ~task[t].allocated

\* C29: every write to a task's state, to a task's allocated flag, to the
\* updated flag and to the head, tail and next pointers is made while the
\* port lock is held.
C29_Locked(ops) ==
  \A n \in 1 .. Len(ops) : ops[n] \in SharedFields => LockDepth(ops, n) = 1

C29_WritesUnderLock ==
  /\ Callable => C24_TaskOps(C29_Locked)
  /\ C29_Locked(LoopOps)

\* C25: sched_task_stop called from an interrupt on an ACTIVE task, at any
\* point where the main loop is outside a handler, leaves the task STOPPED at
\* once, and the handler of a task is only ever called while the task is
\* ACTIVE: a task stopped by the interrupt is not fired unless it is started
\* again.
C25_IsrStopCancels ==
  [][\A t \in Tasks :
       /\ (pc # "handler" /\ task[t].state = SCHED_TASK_ACTIVE)
            => sched_task_stop(t).task[t].state = SCHED_TASK_STOPPED
       /\ C3_Fired(t) => task[t].state = SCHED_TASK_ACTIVE]_vars

\* C26: within one pass of sched_execute_que the handlers of the due tasks
\* are called in the order of the que: when a task is fired, no ACTIVE task
\* that comes before it in the que is expired at the time of the pass.
C26_Before(u, t) == u # t /\ t \in QueFrom(task[u].p_next, task)

C26_FiringOrder ==
  [][\A t \in Tasks :
       C3_Fired(t) =>
         \A u \in Tasks :
           (C26_Before(u, t) /\ task[u].state = SCHED_TASK_ACTIVE)
             => ~task_time_expired(task[u], now_time_ms)]_vars

\* C27: the que is a well-formed list in every state between public calls:
\* p_head is NULL exactly when p_tail is NULL, exactly when the que is empty;
\* the next pointer of the tail is NULL; the list from p_head has no cycle;
\* and every task that is not UNINIT is a node of it exactly once, also after
\* a scheduler stop followed by sched_init and new sched_task_config calls on
\* tasks of the session before, and when slots of the pool are used again.
RECURSIVE C27_Walk(_, _)
C27_Walk(p, n) ==
  IF p = NULL \/ n = 0 THEN <<>>
  ELSE <<p>> \o C27_Walk(task[p].p_next, n - 1)

C27_Nodes == C27_Walk(scheduler.p_head, Cardinality(Tasks) + 1)

C27_WellFormed ==
  /\ scheduler.p_head = NULL <=> scheduler.p_tail = NULL
  /\ scheduler.p_head = NULL <=> C27_Nodes = <<>>
  /\ scheduler.p_tail # NULL =>
       /\ task[scheduler.p_tail].p_next = NULL
       /\ C27_Nodes[Len(C27_Nodes)] = scheduler.p_tail
  /\ Len(C27_Nodes) <= Cardinality(Tasks)
  /\ \A i, j \in 1 .. Len(C27_Nodes) : C27_Nodes[i] = C27_Nodes[j] => i = j
  /\ \A t \in Tasks :
       task[t].state # SCHED_TASK_UNINIT
         => \E i \in 1 .. Len(C27_Nodes) : C27_Nodes[i] = t

\* C27: between public calls (no sched_task_alloc of the main context in
\* progress) the que is well formed.
C27_RegistryStructure == alloc.pc = "idle" => C27_WellFormed

\* C28: while the scheduler is ACTIVE no step removes a node of the que or
\* changes the next pointer of a node that is not the tail, so the que only
\* grows at its end; the que gets shorter only in the teardown of a
\* scheduler stop (sched_clear_que), which empties it.
C28_AppendOnly ==
  [][/\ scheduler.state = SCHED_STATE_ACTIVE =>
          /\ Len(C27_Nodes) <= Len(C27_Nodes')
          /\ \A i \in 1 .. Len(C27_Nodes) :
               /\ C27_Nodes'[i] = C27_Nodes[i]
               /\ i < Len(C27_Nodes) =>
                    task'[C27_Nodes[i]].p_next = task[C27_Nodes[i]].p_next
     /\ Len(C27_Nodes') < Len(C27_Nodes) =>
          /\ pc = "clear"
          /\ scheduler.state = SCHED_STATE_STOPPING
          /\ C27_Nodes' = <<>>]_vars

\* C30: every successful sched_task_start on a task that is not STOPPING, and
\* every successful sched_task_update on a task that is not STOPPING (an
\* ACTIVE task with a shorter interval included), returns with the updated
\* flag of the scheduler set.
C30_CacheInvalidated ==
  Callable =>
    \A p \in Tasks :
      task[p].state # SCHED_TASK_STOPPING =>
        /\ sched_task_start(p).ret => sched_task_start(p).scheduler.updated
        /\ \A interval_ms \in Intervals :
             sched_task_update(p, interval_ms).ret
               => sched_task_update(p, interval_ms).scheduler.updated

\* C31: when the loop fires a repeating task, the task's start_ms becomes the
\* value of the millisecond counter at the entry of its handler; when it
\* fires a one-shot task, start_ms is left as it is.  While the handler
\* runs and when it returns, start_ms changes only by a call of the
\* application, so the time the handler takes does not move the next
\* expiration.
C31_StartAtEntry ==
  [][\A t \in Tasks :
       /\ C3_Fired(t) =>
            IF task[t].repeat
              THEN task'[t].start_ms = now /\ now' = now
              ELSE task'[t].start_ms = task[t].start_ms
       /\ (pc = "handler" /\ p_task = t /\ ~C3_Called)
            => task'[t].start_ms = task[t].start_ms]_vars

\* C31 witness: the handler of a repeating task is running and the counter
\* has moved on since the task's start time was taken.
C31_Witness ==
  /\ pc = "handler"
  /\ task[p_task].repeat
  /\ task[p_task].state = SCHED_TASK_EXECUTING
  /\ task[p_task].start_ms # now

\* C32, as stated: outside a handler, for every ACTIVE or EXECUTING task the
\* values returned by sched_task_remaining_ms and sched_task_elapsed_ms at
\* the same counter value add up to the task's interval modulo the counter
\* range, also when the task is overdue.
C32_RemainingPlusElapsed ==
  pc # "handler" =>
    \A t \in Tasks :
      TASK_ACTIVE(task[t]) =>
        (sched_task_remaining_ms(t) + sched_task_elapsed_ms(t))
            % (UINT32_MAX + 1)
          = task[t].interval_ms

\* C32, amended: the two values add up to the interval as long as the
\* elapsed time does not exceed the interval; for an overdue task the
\* remaining time is 0 and the elapsed time is more than the interval.
C32_RemainingPlusElapsedUntilDue ==
  pc # "handler" =>
    \A t \in Tasks :
      TASK_ACTIVE(task[t]) =>
        IF sched_task_elapsed_ms(t) <= task[t].interval_ms
          THEN sched_task_remaining_ms(t) + sched_task_elapsed_ms(t)
                 = task[t].interval_ms
          ELSE sched_task_remaining_ms(t) = 0

\* C32 witness: outside a handler one started task is overdue and the other
\* one has time left.
C32_Witness ==
  /\ pc # "handler"
  /\ \E t, u \in Tasks :
       /\ TASK_ACTIVE(task[t])
       /\ task[t].interval_ms > 0
       /\ sched_task_elapsed_ms(t) > task[t].interval_ms
       /\ TASK_ACTIVE(task[u])
       /\ sched_task_elapsed_ms(u) > 0
       /\ sched_task_remaining_ms(u) > 0

\* C33, as stated: in every state a task that is EXECUTING has repeat set.
C33_ExecutingRepeats ==
  \A t \in Tasks : task[t].state = SCHED_TASK_EXECUTING => task[t].repeat

\* C33, amended: the loop makes a task EXECUTING exactly when the task is
\* repeating, and a one-shot task becomes EXECUTING only by a call of the
\* application on the task while the task's own handler runs and the task
\* is STOPPING (start or update from inside the handler).
C33_ExecutingRepeatsOrRestarted ==
  [][\A t \in Tasks :
       /\ C3_Fired(t) =>
            (task'[t].state = SCHED_TASK_EXECUTING <=> task[t].repeat)
       /\ (task'[t].state = SCHED_TASK_EXECUTING /\ ~task'[t].repeat
             /\ task[t].state # SCHED_TASK_EXECUTING)
            => /\ C3_Called
               /\ pc = "handler"
               /\ p_task = t
               /\ task[t].state = SCHED_TASK_STOPPING
               /\ ~task[t].repeat
       /\ (task[t].state = SCHED_TASK_EXECUTING
             /\ task'[t].state = SCHED_TASK_EXECUTING)
            => task'[t].repeat = task[t].repeat]_vars

\* C33 witness: a one-shot task is EXECUTING inside its handler.
C33_Witness ==
  /\ pc = "handler"
  /\ task[p_task].state = SCHED_TASK_EXECUTING
  /\ ~task[p_task].repeat

C35_Access(p, config, start, stop, interval, data) ==
  /\ config # "-" =>
       \A h \in Handlers, i \in Intervals, rep \in BOOLEAN :
         sched_task_config(p, h, i, rep).ret = (config = "yes")
  /\ sched_task_start(p).ret = (start = "yes")
  /\ sched_task_stop(p).ret = (stop = "yes")
  /\ \A i \in Intervals : sched_task_update(p, i).ret = (interval = "yes")
  /\ \A b \in DataPtrs : (sched_task_data(p, b, 1).ret = 1) = (data = "yes")

\* C35: the access table holds for every task whenever the scheduler is
\* ACTIVE and the application can call.
C35_AccessTable ==
  (Callable /\ scheduler.state = SCHED_STATE_ACTIVE) =>
    \A p \in Tasks :
      Usable(p) =>
        CASE task[p].state = SCHED_TASK_UNINIT
               -> C35_Access(p, "-", "no", "no", "no", "no")
          [] task[p].state = SCHED_TASK_STOPPED
               -> C35_Access(p, "yes", "yes", "yes", "yes", "yes")
          [] task[p].state = SCHED_TASK_ACTIVE
               -> C35_Access(p, "yes", "yes", "yes", "yes", "no")
          [] task[p].state = SCHED_TASK_EXECUTING
               -> C35_Access(p, "no", "yes", "yes", "yes", "no")
          [] task[p].state = SCHED_TASK_STOPPING
               -> C35_Access(p, "no", "yes", "yes", "yes", "no")

\* C36: when sched_start has returned from a stop, the cached next task of
\* sched_execute_que is NULL as p_head and p_tail are; and the loop never
\* tests a cached task that the teardown of an earlier session has made
\* UNINIT.
C36_CacheReset ==
  /\ (pc = "main" /\ scheduler.state = SCHED_STATE_STOPPED) =>
       /\ scheduler.p_head = NULL
       /\ scheduler.p_tail = NULL
       /\ p_next_task = NULL
  /\ (pc = "cache" /\ p_next_task # NULL) =>
       task[p_next_task].state # SCHED_TASK_UNINIT

\* C37: every call of sched_execute_que returns: when the loop has entered it,
\* and every handler returns, the call reaches its return, from the cached
\* task's remaining time or from the end of the scan.
C37_QueTerminates == (pc = "que") ~> (pc \in {"que_ret", "sleep"})

\* C38: sched_task_alloc and sched_pool_allocated read, write and return
\* only slots of the pool's task array, also when every slot is allocated.
C38_InBounds ==
  Callable =>
    \A p_pool \in PoolPtrs :
      /\ sched_task_alloc_reads(p_pool) \subseteq pool.p_tasks
      /\ sched_pool_allocated_reads(p_pool) \subseteq pool.p_tasks
      /\ \A end_allocated \in BOOLEAN :
           sched_task_alloc(p_pool, end_allocated).ret
             \in pool.p_tasks \cup {NULL}

\* C39: a scheduler stop leaves no slot of the pool allocated: once
\* sched_start has returned and the scheduler is STOPPED, every slot is free,
\* so that after the next sched_init the pool hands out all its slots again.
C39_NoLeak ==
  (pc = "main" /\ scheduler.state = SCHED_STATE_STOPPED) =>
    \A t \in pool.p_tasks : ~pool.initialized \/ ~task[t].allocated

\* C40: once the scheduler is STOPPING, sched_start does not call
\* sched_port_sleep any more: no step of the main context enters the sleep
\* while the scheduler state is STOPPING.
C40_NoSleepWhenStopping ==
  [][(scheduler.state = SCHED_STATE_STOPPING /\ pc # "sleep")
       => pc' # "sleep"]_vars

====
